---- MODULE Spec2Model ----
(***************************************************************************)
(* idendro: reconstruction of typed dendrogram nodes from SciPy link        *)
(* geometry (BaseDendro), the clustering data it consults (ClusteringData)  *)
(* and the Dendrogram container handed to renderers.                        *)
(*                                                                         *)
(* Ids are 0-based as in the code: leaves 0..N-1, the k-th linkage row      *)
(* (0-indexed) is merge N+k.  TLA+ sequences are 1-based, so row k of the   *)
(* code is Z[k+1] here.                                                     *)
(*                                                                         *)
(* Coordinates: SciPy places leaf i of the display order at x = 10*i + 5    *)
(* and a merge at the midpoint of its two children.  All such values are    *)
(* dyadic rationals that a float represents exactly, so float equality of   *)
(* registry keys is equality of the exact values; the model keeps them as   *)
(* integers in units of 1/XUnit.                                            *)
(***************************************************************************)
EXTENDS Integers, Sequences, FiniteSets, TLC

\* ------------------------------------------------------------------ bounds
\* Largest number of leaves (observations) of a generated linkage.
MaxLeaves == 3
\* Largest merge distance of a linkage row (distances are 0..MaxDist).
MaxDist == 1

RECURSIVE Pow2(_)
Pow2(n) == IF n = 0 THEN 1 ELSE 2 * Pow2(n - 1)
\* Units per 1.0 of x: deep enough that every midpoint is an integer.
XUnit == Pow2(MaxLeaves + 1)

\* Python's None, for names and tags.  An optional value (a Dendrogram that
\* may not have been returned, a cluster label a node may not carry) is a
\* sequence: <<>> for None, <<v>> for v.
None == "None"

\* ------------------------------------------------------- generic helpers
\* F(x) with x evaluated once (a local variable of the code: TLC would
\* otherwise evaluate a LET definition again at each of its uses).
Bind(x, F(_)) == CHOOSE v \in {F(r) : r \in {x}} : TRUE

Range(s) == {s[i] : i \in 1..Len(s)}
Max2(a, b) == IF a >= b THEN a ELSE b

RECURSIVE Flatten(_)
\* numpy's ndarray.flatten() of a list of rows (row-major).
Flatten(rows) == IF rows = <<>> THEN <<>> ELSE Head(rows) \o Flatten(Tail(rows))

RECURSIVE InsertSorted(_, _)
InsertSorted(s, v) ==
  IF s = <<>> THEN <<v>>
  ELSE IF v <= Head(s) THEN <<v>> \o s
  ELSE <<Head(s)>> \o InsertSorted(Tail(s), v)

RECURSIVE NpSort(_)
\* numpy.sort of a one-dimensional array (ascending, duplicates kept).
NpSort(s) == IF s = <<>> THEN <<>> ELSE InsertSorted(NpSort(Tail(s)), Head(s))

\* X[Y == 0.0]: boolean-mask selection, in array order.
MaskZero(X, Y) == SelectSeq([i \in 1..Len(X) |-> <<X[i], Y[i]>>], LAMBDA p : p[2] = 0)

\* --------------------------------------------------- clustering results
\* A linkage matrix as scipy.cluster.hierarchy.linkage emits it: N-1 rows
\* <<a, b, dist>> with a < b, every id a child of exactly one row, a child
\* merged only after it was formed, distances non-decreasing along the rows.
\* Leaves are numbered in order of first appearance (a relabelling of the
\* observations, which the program never inspects).
NumLeaves(Z) == Len(Z) + 1

UsedIds(rows) == UNION {{rows[i][1], rows[i][2]} : i \in 1..Len(rows)}

NextRows(n, rows) ==
  LET used == UsedIds(rows)
      free == (0..(n + Len(rows) - 1)) \ used
      okLeaf(l, taken) ==
        \A m \in (free \ taken) : m < n => l <= m
      lastD == IF rows = <<>> THEN 0 ELSE rows[Len(rows)][3]
  IN {<<a, b, d>> : a \in free, b \in free, d \in lastD..MaxDist} \cap
     {r \in (0..(2 * n)) \X (0..(2 * n)) \X (0..MaxDist) :
        /\ r[1] < r[2]
        /\ (r[1] < n => okLeaf(r[1], {}))
        /\ (r[2] < n => okLeaf(r[2], {r[1]}))}

RECURSIVE LinkagesFrom(_, _)
LinkagesFrom(n, rows) ==
  IF Len(rows) = n - 1 THEN {rows}
  ELSE UNION {LinkagesFrom(n, Append(rows, r)) : r \in NextRows(n, rows)}

Linkages == UNION {LinkagesFrom(n, <<>>) : n \in 2..MaxLeaves}

RECURSIVE LeavesUnder(_, _)
\* The observations below linkage id `id`.
LeavesUnder(Z, id) ==
  IF id < NumLeaves(Z) THEN {id}
  ELSE LET row == Z[id - NumLeaves(Z) + 1]
       IN LeavesUnder(Z, row[1]) \cup LeavesUnder(Z, row[2])

AllIds(Z) == 0..(2 * NumLeaves(Z) - 2)

\* Flat cluster assignments T (T[leaf+1] is the label of leaf), as fcluster
\* emits them: every flat cluster is the leaf set of one linkage node, and
\* labels are 1..K, numbered here by first appearance.
ValidCut(Z, T) ==
  /\ T[1] = 1
  /\ \A i \in 2..Len(T) : \E j \in 1..(i - 1) : T[i] <= T[j] + 1
  /\ \A k \in Range(T) :
       \E id \in AllIds(Z) : LeavesUnder(Z, id) = {l \in 0..(Len(T) - 1) : T[l + 1] = k}

Cuts(Z) == {T \in [1..NumLeaves(Z) -> 1..NumLeaves(Z)] : ValidCut(Z, T)}

\* The documented 4-leaf example: rows (0,1) -> 4, (2,3) -> 5, (4,5) -> 6 at
\* distances 1, 1, 3, cut into the flat clusters {0,1} = 1 and {2,3} = 2.
ExampleLinkage == << <<0, 1, 1>>, <<2, 3, 1>>, <<4, 5, 3>> >>
ExampleCut == <<1, 1, 2, 2>>


\* ------------------------------------------- scipy.cluster.hierarchy.dendrogram
\* The geometry producer BaseDendro._create_scipy_dendrogram calls with
\* no_plot=True (and that a caller of convert_scipy_dendrogram ran itself).
\* Modelled from SciPy's documented layout: leaves at x = 5, 15, 25, ... in
\* display order and y = 0; a merge is a bracket from its left child's top to
\* its right child's top at the merge distance, its own top at the midpoint;
\* brackets are emitted left subtree, right subtree, then the merge itself.
\* count_sort / distance_sort decide which child of a row is drawn left.
RowOf(Z, id) == Z[id - NumLeaves(Z) + 1]
CountOf(Z, id) == Cardinality(LeavesUnder(Z, id))
DistOf(Z, id) == IF id < NumLeaves(Z) THEN 0 ELSE RowOf(Z, id)[3]

SortModes == {"none", "count_ascending", "count_descending",
              "distance_ascending", "distance_descending"}

\* TRUE when the row's second column is drawn to the left.
DrawnSwapped(Z, mode, id) ==
  LET aa == RowOf(Z, id)[1]
      ab == RowOf(Z, id)[2]
  IN CASE mode = "count_ascending" -> CountOf(Z, aa) > CountOf(Z, ab)
       [] mode = "count_descending" -> ~(CountOf(Z, aa) > CountOf(Z, ab))
       [] mode = "distance_ascending" -> DistOf(Z, aa) > DistOf(Z, ab)
       [] mode = "distance_descending" -> ~(DistOf(Z, aa) > DistOf(Z, ab))
       [] OTHER -> FALSE

LeafX(i) == (10 * i + 5) * XUnit

\* The bracket of a merge at distance h over the layouts L, R of its children.
DrawJoin(L, R, h, color) ==
  [leaves |-> L.leaves \o R.leaves,
   leafcolors |-> L.leafcolors \o R.leafcolors,
   icoord |-> L.icoord \o R.icoord \o << <<L.x, L.x, R.x, R.x>> >>,
   dcoord |-> L.dcoord \o R.dcoord \o << <<L.y, h, h, R.y>> >>,
   colors |-> L.colors \o R.colors \o <<color>>,
   x |-> (L.x + R.x) \div 2,
   y |-> h]

RECURSIVE Draw(_, _, _, _, _)
\* Layout of the subtree of `id` whose first leaf is the k-th displayed one.
Draw(Z, mode, color, id, k) ==
  IF id < NumLeaves(Z)
  THEN [leaves |-> <<id>>, leafcolors |-> <<color>>, icoord |-> <<>>, dcoord |-> <<>>,
        colors |-> <<>>, x |-> LeafX(k), y |-> 0]
  ELSE LET sw == DrawnSwapped(Z, mode, id)
           ua == IF sw THEN RowOf(Z, id)[2] ELSE RowOf(Z, id)[1]
           ub == IF sw THEN RowOf(Z, id)[1] ELSE RowOf(Z, id)[2]
       IN Bind(Draw(Z, mode, color, ua, k), LAMBDA L :
            Bind(Draw(Z, mode, color, ub, k + Len(L.leaves)), LAMBDA R :
              DrawJoin(L, R, RowOf(Z, id)[3], color)))

\* Link colours: SciPy's own palette keys are "C0".."C9" (one key stands for
\* them); a link_color_func returns the caller's colours (one key, "custom").
LinkColor(link_color_func) == IF link_color_func THEN "custom" ELSE "C0"

\* The dictionary dendrogram(Z, ..., no_plot=True) returns; ivl are the leaf
\* labels (the leaf ids as text, modelled by the ids).
ScipyDendrogramOf(Z, mode, link_color_func) ==
  LET D == Draw(Z, mode, LinkColor(link_color_func), 2 * NumLeaves(Z) - 2, 0)
  IN [icoord |-> D.icoord, dcoord |-> D.dcoord, color_list |-> D.colors,
      ivl |-> D.leaves, leaves |-> D.leaves, leaves_color_list |-> D.leafcolors]

Reverse(s) == [i \in 1..Len(s) |-> s[Len(s) + 1 - i]]

\* The same brackets emitted parents-before-children ("or equivalent" input
\* of convert_scipy_dendrogram whose producer does not keep SciPy's order).
ReorderedDendrogram(R) ==
  [R EXCEPT !.icoord = Reverse(R.icoord), !.dcoord = Reverse(R.dcoord),
            !.color_list = Reverse(R.color_list)]


\* ------------------------------------------------------------ Python dict
\* A dict is a sequence of entries in insertion order; assigning to a key
\* that is present replaces its value in place.
DictHas(d, key) == \E i \in 1..Len(d) : d[i].key = key
DictGet(d, key) == d[CHOOSE i \in 1..Len(d) : d[i].key = key].val
DictPut(d, key, val) ==
  IF DictHas(d, key)
  THEN [i \in 1..Len(d) |-> IF d[i].key = key THEN [key |-> key, val |-> val] ELSE d[i]]
  ELSE Append(d, [key |-> key, val |-> val])
DictValues(d) == [i \in 1..Len(d) |-> d[i].val]

RECURSIVE DictFromZip(_, _)
\* dict(zip(keys, vals)): later pairs win, zip stops at the shorter input.
DictFromZip(keys, vals) ==
  IF keys = <<>> \/ vals = <<>> THEN <<>>
  ELSE LET n == IF Len(keys) <= Len(vals) THEN Len(keys) ELSE Len(vals)
       IN DictPut(DictFromZip(SubSeq(keys, 1, n - 1), SubSeq(vals, 1, n - 1)),
                  keys[n], vals[n])

\* np.arange(lo, hi)
Arange(lo, hi) == [i \in 1..Max2(hi - lo, 0) |-> lo + i - 1]

\* ---------------------------------------------------------- ClusteringData
\* ClusteringData.__init__ without the optional leaders / tree arguments.
NewClusteringData(Z, T) ==
  [linkage_matrix |-> Z, cluster_assignments |-> T,
   have_leaders |-> FALSE, leaders |-> <<>>, flat_cluster_ids |-> <<>>]

\* ClusteringData.__init__ given leaders=(L, M): stored, have_leaders set.
NewClusteringDataWithLeaders(Z, T, L, M) ==
  [linkage_matrix |-> Z, cluster_assignments |-> T,
   have_leaders |-> TRUE, leaders |-> L, flat_cluster_ids |-> M]

\* scipy.cluster.hierarchy.leaders(Z, T): the linkage ids whose leaves are
\* exactly one flat cluster (L), each with that cluster's label (M).  Listed
\* by increasing id; the program only looks entries up by id.
IsLeader(Z, T, id) == \E k \in Range(T) :
  LeavesUnder(Z, id) = {l \in 0..(Len(T) - 1) : T[l + 1] = k}
ScipyLeaders(Z, T) ==
  LET ids == SelectSeq([i \in 1..(2 * NumLeaves(Z) - 1) |-> i - 1],
                       LAMBDA id : IsLeader(Z, T, id))
  IN [L |-> ids,
      M |-> [j \in 1..Len(ids) |-> T[(CHOOSE l \in LeavesUnder(Z, ids[j]) : TRUE) + 1]]]

\* ClusteringData.get_leaders: computed on the first call, then cached.
get_leaders(c) ==
  IF ~c.have_leaders
  THEN LET lm == ScipyLeaders(c.linkage_matrix, c.cluster_assignments)
       IN [cd |-> [c EXCEPT !.leaders = lm.L, !.flat_cluster_ids = lm.M,
                            !.have_leaders = TRUE],
           L |-> lm.L, M |-> lm.M]
  ELSE [cd |-> c, L |-> c.leaders, M |-> c.flat_cluster_ids]

\* A merge map numbering the rows from N-1 (np.arange one too low).
GetMergeMapOffByOne(c) ==
  LET Z == c.linkage_matrix
  IN DictFromZip([k \in 1..Len(Z) |-> <<Z[k][1], Z[k][2]>>],
                 Arange(Len(Z), Len(Z) * 2))
\* ClusteringData.get_merge_map: (col 0, col 1) of each row -> merged id.
get_merge_map(c) ==
  LET Z == c.linkage_matrix
      component_ids == [k \in 1..Len(Z) |-> <<Z[k][1], Z[k][2]>>]
      merged_ids == Arange(Len(Z) + 1, (Len(Z) + 1) * 2 - 1)
  IN DictFromZip(component_ids, merged_ids)


\* --------------------------------------------------------------- BaseDendro
Builders == {1, 2}

VARIABLES
  cdata,         \* the ClusteringData instance handed to set_cluster_info
  cluster_data,  \* per builder: TRUE once set_cluster_info stored cdata
  geom,          \* per builder: icoord, dcoord, link_colors, leaf_labels,
                 \*   leaves, leaves_color_list, leaf_positions
  node_dict,     \* BaseDendro.node_dict: ONE dict, a class attribute that
                 \*   every instance mutates in place
  writer,        \* history: writer[i] is the builder whose pass wrote node_dict[i]
  out,           \* per builder: what its last convert/create call did
  shown,         \* per builder: what check_nodes did on its last Dendrogram
  access,        \* what the direct get_leaders / get_merge_map calls on cdata did
  thr            \* per thread: where its _nodes call stands, its locals, its
                 \*   own ClusteringData, and what the call returned or raised

vars == <<cdata, cluster_data, geom, node_dict, writer, out, shown, access, thr>>

\* BaseDendro.__init__ with color_scheme=None: the keys of the default table.
DefaultColorScheme == {"C0", "C1", "C2", "C3", "C4", "C5", "C6", "C7", "C8", "C9"}
ColorValue(key) == <<"#", key>>

\* The class-level defaults of the geometry attributes (all empty).
EmptyGeom ==
  [icoord |-> <<>>, dcoord |-> <<>>, link_colors |-> <<>>, leaf_labels |-> <<>>,
   leaves |-> <<>>, leaves_color_list |-> <<>>, leaf_positions |-> <<>>]

NoError == [type |-> None, what |-> None, at |-> 0, names |-> {}]
Error(type, what, at, names) == [type |-> type, what |-> what, at |-> at, names |-> names]

RequiredKeys == {"icoord", "dcoord", "color_list", "ivl", "leaves", "leaves_color_list"}

\* A validation that reports one missing key only.
MissingKeysFirstOnly(R) ==
  LET m == RequiredKeys \ DOMAIN R
  IN IF m = {} THEN {} ELSE {CHOOSE k \in m : TRUE}
\* set(required_keys).difference(set(R.keys())); R.keys() is DOMAIN R.
MissingKeys(R) == RequiredKeys \ DOMAIN R

LeafPositions(icoord, dcoord) ==
  LET sel == MaskZero(Flatten(icoord), Flatten(dcoord))
  IN NpSort([i \in 1..Len(sel) |-> sel[i][1]])

\* BaseDendro._set_scipy_dendrogram(R) on a builder holding geometry g.
set_scipy_dendrogram(g, R) ==
  IF MissingKeys(R) # {}
  THEN [err |-> Error("AttributeError", "missing keys", 0, MissingKeys(R)), geom |-> g]
  ELSE [err |-> NoError,
        geom |-> [icoord |-> R.icoord, dcoord |-> R.dcoord, link_colors |-> R.color_list,
                  leaf_labels |-> R.ivl, leaves |-> R.leaves,
                  leaves_color_list |-> R.leaves_color_list,
                  leaf_positions |-> LeafPositions(R.icoord, R.dcoord)]]

Min3(a, b, c) == IF a <= b /\ a <= c THEN a ELSE IF b <= c THEN b ELSE c
Min2(a, b) == IF a <= b THEN a ELSE b
\* The number of brackets zip(icoord, dcoord, link_colors) yields.
LinkCount(g) == Min3(Len(g.icoord), Len(g.dcoord), Len(g.link_colors))

\* BaseDendro._links: one ClusterLink per zip(icoord, dcoord, link_colors).
RECURSIVE LinksFrom(_, _, _)
LinksFrom(g, scheme, i) ==
  IF i > Min3(Len(g.icoord), Len(g.dcoord), Len(g.link_colors))
  THEN [err |-> NoError, links |-> <<>>]
  ELSE IF g.link_colors[i] \notin scheme
  THEN [err |-> Error("KeyError", "link color", i, {g.link_colors[i]}), links |-> <<>>]
  ELSE LET rest == LinksFrom(g, scheme, i + 1)
       IN IF rest.err # NoError THEN rest
          ELSE [err |-> NoError,
                links |-> <<[x |-> g.icoord[i], y |-> g.dcoord[i],
                             fillcolor |-> ColorValue(g.link_colors[i])]>> \o rest.links]
\* A link list built without consulting the colour table for absent keys.
LinksUnchecked(g, scheme) ==
  [err |-> NoError,
   links |-> [i \in 1..Min3(Len(g.icoord), Len(g.dcoord), Len(g.link_colors)) |->
                [x |-> g.icoord[i], y |-> g.dcoord[i],
                 fillcolor |-> ColorValue(g.link_colors[i])]]]
links_of(g, scheme) == LinksFrom(g, scheme, 1)

\* BaseDendro._axis_labels: zip(leaf_positions, leaf_labels).
axis_labels_of(g) ==
  [i \in 1..Min2(Len(g.leaf_positions), Len(g.leaf_labels)) |->
     [label |-> g.leaf_labels[i], x |-> g.leaf_positions[i]]]


\* Enrichment callbacks node_label_func(cluster_data, node) and
\* node_hover_func(cluster_data, node): a callback that reports the node it
\* was handed, so that what it was handed can be read off its result.
\* The empty label "" a node has when no callback is given (texts are
\* sequences, so that a node's label is comparable with any other).
NoText == <<>>
LabelFn(c, p) == <<"label", p.id, p.type, p.cluster_id>>
HoverFn(c, p) == <<"hover", p.id, p.type, p.cluster_id>>

\* An enrichment that calls the label callback a second time after the hover
\* callback.
EnrichRepeated(acc, c, key, p, label_func, hover_func) ==
  Bind([p EXCEPT !.label = IF label_func THEN LabelFn(c, p) ELSE NoText], LAMBDA p1 :
    [acc EXCEPT
       !.dict = DictPut(acc.dict, key,
                        [p1 EXCEPT !.hovertext = IF hover_func THEN HoverFn(c, p1) ELSE <<>>]),
       !.log = acc.log \o (IF label_func THEN << <<"label", p.id>> >> ELSE <<>>)
                       \o (IF hover_func THEN << <<"hover", p.id>> >> ELSE <<>>)
                       \o (IF label_func THEN << <<"label", p.id>> >> ELSE <<>>),
       !.puts = acc.puts + 1])
\* p.label = ...; p.hovertext = ...; self.node_dict[key] = p
\* acc: [dict, log, puts, err] of the pass so far.
Enrich(acc, c, key, p, label_func, hover_func) ==
  Bind([p EXCEPT !.label = IF label_func THEN LabelFn(c, p) ELSE NoText], LAMBDA p1 :
    [acc EXCEPT
       !.dict = DictPut(acc.dict, key,
                        [p1 EXCEPT !.hovertext = IF hover_func THEN HoverFn(c, p1) ELSE <<>>]),
       !.log = acc.log \o (IF label_func THEN << <<"label", p.id>> >> ELSE <<>>)
                       \o (IF hover_func THEN << <<"hover", p.id>> >> ELSE <<>>),
       !.puts = acc.puts + 1])

\* _nodes, lines 251-265: one iteration of the first loop.
SeedLeaf(acc, i, xcoord, leaf_id, color, scheme, c, label_func, hover_func) ==
  IF color \notin scheme
  THEN [acc EXCEPT !.err = Error("KeyError", "leaf color", i, {color})]
  ELSE Enrich(acc, c, <<xcoord, 0>>,
              [x |-> xcoord, y |-> 0, edgecolor |-> ColorValue(color),
               fillcolor |-> ColorValue(color), type |-> "leaf",
               cluster_id |-> <<>>, id |-> leaf_id, label |-> NoText, hovertext |-> <<>>],
              label_func, hover_func)

\* _nodes, first loop: a leaf node per zip(leaf_positions, leaves, leaves_color_list).
RECURSIVE SeedLeaves(_, _, _, _, _, _, _)
SeedLeaves(acc, i, g, scheme, c, label_func, hover_func) ==
  IF i > Min3(Len(g.leaf_positions), Len(g.leaves), Len(g.leaves_color_list)) THEN acc
  ELSE Bind(SeedLeaf(acc, i, g.leaf_positions[i], g.leaves[i], g.leaves_color_list[i],
                     scheme, c, label_func, hover_func),
            LAMBDA a : IF a.err # NoError THEN a
                       ELSE SeedLeaves(a, i + 1, g, scheme, c, label_func, hover_func))

\* flat_cluster_ids[leaders == merged_id][0]
LeaderLabel(L, M, id) == M[CHOOSE j \in 1..Len(L) : L[j] = id /\ \A k \in 1..(j - 1) : L[k] # id]

\* _nodes, lines 280-287: the type of a merge node.
NodeType(merged_id, L, left, right) ==
  IF merged_id \in Range(L) THEN "cluster"
  ELSE IF right.type \in {"leaf", "subcluster"} /\ left.type \in {"leaf", "subcluster"}
  THEN "subcluster"
  ELSE "supercluster"

\* merged_coords = (x[1] + (x[2] - x[1]) / 2.0, y[2])   (0-based indices)
MergedCoords(x, y) == <<x[2] + (x[3] - x[2]) \div 2, y[3]>>
LeftCoords(x, y) == <<x[1], y[1]>>
RightCoords(x, y) == <<x[4], y[4]>>

\* merge_map[(left_leaf.id, right_leaf.id)]
MergeKey(left, right) == <<left.id, right.id>>

\* _nodes, lines 280-306: the node of link i over the registered children.
MergeNode(x, y, color, merged_id, L, M, left_leaf, right_leaf) ==
  Bind(NodeType(merged_id, L, left_leaf, right_leaf), LAMBDA node_type :
    [x |-> MergedCoords(x, y)[1], y |-> MergedCoords(x, y)[2],
     edgecolor |-> ColorValue(color),
     fillcolor |-> IF node_type # "subcluster" THEN ColorValue(color) ELSE ColorValue("fff"),
     type |-> node_type,
     cluster_id |-> IF node_type = "cluster" THEN <<LeaderLabel(L, M, merged_id)>> ELSE <<>>,
     id |-> merged_id, label |-> NoText, hovertext |-> <<>>])

\* _nodes, lines 274-306: one iteration of the second loop.  The right foot
\* is looked up before the left one, then the pair, then the colour.
ProcessLink(acc, i, x, y, color, scheme, c, merge_map, L, M, label_func, hover_func) ==
  IF ~DictHas(acc.dict, RightCoords(x, y))
  THEN [acc EXCEPT !.err = Error("KeyError", "coord", i, {RightCoords(x, y)})]
  ELSE IF ~DictHas(acc.dict, LeftCoords(x, y))
  THEN [acc EXCEPT !.err = Error("KeyError", "coord", i, {LeftCoords(x, y)})]
  ELSE
    Bind(DictGet(acc.dict, RightCoords(x, y)), LAMBDA right_leaf :
    Bind(DictGet(acc.dict, LeftCoords(x, y)), LAMBDA left_leaf :
      IF ~DictHas(merge_map, MergeKey(left_leaf, right_leaf))
      THEN [acc EXCEPT !.err = Error("KeyError", "pair", i, {MergeKey(left_leaf, right_leaf)})]
      ELSE IF color \notin scheme
      THEN [acc EXCEPT !.err = Error("KeyError", "node color", i, {color})]
      ELSE Enrich(acc, c, MergedCoords(x, y),
                  MergeNode(x, y, color, DictGet(merge_map, MergeKey(left_leaf, right_leaf)),
                            L, M, left_leaf, right_leaf),
                  label_func, hover_func)))

\* _nodes, second loop: a merge node per zip(icoord, dcoord, link_colors).
RECURSIVE ProcessLinks(_, _, _, _, _, _, _, _, _, _)
ProcessLinks(acc, i, g, scheme, c, merge_map, L, M, label_func, hover_func) ==
  IF i > Min3(Len(g.icoord), Len(g.dcoord), Len(g.link_colors)) THEN acc
  ELSE Bind(ProcessLink(acc, i, g.icoord[i], g.dcoord[i], g.link_colors[i], scheme, c,
                        merge_map, L, M, label_func, hover_func),
            LAMBDA a : IF a.err # NoError THEN a
                       ELSE ProcessLinks(a, i + 1, g, scheme, c, merge_map, L, M,
                                         label_func, hover_func))

\* BaseDendro._nodes on a builder with geometry g whose cluster_data is c
\* (has_cd FALSE: set_cluster_info was never called, the attribute is unset).
\* Result: what the call returned or raised, and the registry and the
\* ClusteringData it left behind.
\* A build that never reuses the registry.
NeverMemoised(d) == FALSE
\* "if not self.node_dict": the pass is skipped when the dict holds anything.
NodesMemoised(d) == d # <<>>
\* A pass that swallows the error of a failed lookup and returns what it
\* has registered so far.
FinishPassPartial(a1, g, scheme, merge_map, lead, label_func, hover_func) ==
  Bind(ProcessLinks(a1, 1, g, scheme, lead.cd, merge_map, lead.L, lead.M,
                    label_func, hover_func),
       LAMBDA a2 : [err |-> NoError, nodes |-> DictValues(a2.dict),
                    dict |-> a2.dict, cd |-> lead.cd,
                    ran |-> TRUE, puts |-> a2.puts, log |-> a2.log])
\* _nodes, lines 270-308: the second half of the pass, after the leaves
\* were seeded (a1) and get_leaders answered (lead).
FinishPass(a1, g, scheme, merge_map, lead, label_func, hover_func) ==
  Bind(ProcessLinks(a1, 1, g, scheme, lead.cd, merge_map, lead.L, lead.M,
                    label_func, hover_func),
       LAMBDA a2 : [err |-> a2.err,
                    nodes |-> IF a2.err = NoError THEN DictValues(a2.dict) ELSE <<>>,
                    dict |-> a2.dict, cd |-> lead.cd,
                    ran |-> TRUE, puts |-> a2.puts, log |-> a2.log])

nodes_of(d, g, scheme, has_cd, c, label_func, hover_func) ==
  IF NodesMemoised(d)
  THEN [err |-> NoError, nodes |-> DictValues(d), dict |-> d, cd |-> c,
        ran |-> FALSE, puts |-> 0, log |-> <<>>]
  ELSE IF ~has_cd
  THEN [err |-> Error("AttributeError", "cluster_data", 0, {}), nodes |-> <<>>,
        dict |-> d, cd |-> c, ran |-> TRUE, puts |-> 0, log |-> <<>>]
  ELSE
    Bind(SeedLeaves([dict |-> d, log |-> <<>>, puts |-> 0, err |-> NoError],
                    1, g, scheme, c, label_func, hover_func),
         LAMBDA a1 :
           IF a1.err # NoError
           THEN [err |-> a1.err, nodes |-> <<>>, dict |-> a1.dict, cd |-> c,
                 ran |-> TRUE, puts |-> a1.puts, log |-> a1.log]
           ELSE Bind(get_merge_map(c), LAMBDA merge_map :
                  Bind(get_leaders(c), LAMBDA lead :
                    FinishPass(a1, g, scheme, merge_map, lead, label_func, hover_func))))

\* ---------------------------------------------------------------- Dendrogram
\* Dendrogram(links=..., axis_labels=..., nodes=...): the other fields keep
\* their dataclass defaults.
NewDendrogram(links, axis_labels, nodes) ==
  [links |-> links, axis_labels |-> axis_labels, nodes |-> nodes,
   computed_nodes |-> TRUE, x_domain |-> <<0, 0>>, y_domain |-> <<0, 0>>]

\* Dendrogram.check_nodes(show_nodes), the first thing to_altair, to_plotly,
\* to_matplotlib and to_streamlit do after validating their options.
check_nodes(dg, show_nodes) ==
  IF show_nodes /\ ~dg.computed_nodes THEN "RuntimeError" ELSE "ok"

NoPass == [ran |-> FALSE, puts |-> 0, log |-> <<>>]

\* BaseDendro._generate_dendrogram.
generate_dendrogram(d, g, scheme, has_cd, c, compute_nodes, label_func, hover_func) ==
  Bind(links_of(g, scheme), LAMBDA lk :
    IF lk.err # NoError
    THEN [err |-> lk.err, dendrogram |-> <<>>, dict |-> d, cd |-> c, pass |-> NoPass]
    ELSE IF ~compute_nodes
    THEN [err |-> NoError,
          dendrogram |-> <<NewDendrogram(lk.links, axis_labels_of(g), <<>>)>>,
          dict |-> d, cd |-> c, pass |-> NoPass]
    ELSE Bind(nodes_of(d, g, scheme, has_cd, c, label_func, hover_func), LAMBDA nd :
           [err |-> nd.err,
            dendrogram |-> IF nd.err = NoError
                           THEN <<NewDendrogram(lk.links, axis_labels_of(g), nd.nodes)>>
                           ELSE <<>>,
            dict |-> nd.dict, cd |-> nd.cd,
            pass |-> [ran |-> nd.ran, puts |-> nd.puts, log |-> nd.log]]))

\* --------------------------------------------------------------- the calls
\* out[b]: the error the builder's last convert/create call raised (NoError
\* when it returned), the Dendrogram it returned, the compute_nodes and
\* callback arguments it was given (history), the keys of the geometry record
\* at hand (history: the record the call was given, or the one the geometry
\* it built from came from; <<>> when there was none), and what its _nodes
\* call did: whether the pass ran, how many registrations it made, the
\* callbacks it invoked.
NoOutcome ==
  [err |-> NoError, dendrogram |-> <<>>, compute_nodes |-> FALSE,
   callbacks |-> FALSE, given |-> <<>>, pass |-> NoPass]

\* The registry after a call, and who wrote each entry: entries are only
\* ever written by the pass of the calling builder.
WriterAfter(b, d) ==
  [i \in 1..Len(d) |-> IF i <= Len(node_dict) /\ d[i] = node_dict[i] THEN writer[i] ELSE b]

\* ClusteringData(linkage_matrix, cluster_assignments, threshold) of the
\* clustering workflows in scope: a generated linkage with one of its cuts,
\* or the documented example.
ClusteringInputs ==
  {<<Z, T>> \in Linkages \X UNION {Cuts(Z1) : Z1 \in Linkages} : T \in Cuts(Z)}
  \cup {<<ExampleLinkage, ExampleCut>>}

\* access: whether the constructor was given leaders, the last direct call
\* on cdata and the value it returned, and how often the direct calls ran
\* scipy's leaders() and built a merge map (history).
NoAccess ==
  [supplied |-> FALSE, op |-> None, value |-> <<>>, leaders_runs |-> 0, merge_map_runs |-> 0]

\* No thread is inside _nodes.
NoThread ==
  [pc |-> "idle", i |-> 0, cd |-> <<>>, merge_map |-> <<>>, L |-> <<>>, M |-> <<>>,
   err |-> NoError, result |-> <<>>]

Init ==
  /\ cdata \in {NewClusteringData(zt[1], zt[2]) : zt \in ClusteringInputs}
  /\ cluster_data = [b \in Builders |-> FALSE]
  /\ geom = [b \in Builders |-> EmptyGeom]
  /\ node_dict = <<>>
  /\ writer = <<>>
  /\ out = [b \in Builders |-> NoOutcome]
  /\ shown = [b \in Builders |-> <<>>]
  /\ access = NoAccess
  /\ thr = [t \in Builders |-> NoThread]

\* BaseDendro.set_cluster_info(cdata)
SetClusterInfo(b) ==
  /\ cluster_data' = [cluster_data EXCEPT ![b] = TRUE]
  /\ UNCHANGED <<cdata, geom, node_dict, writer, out, shown, access, thr>>

\* The arguments of a call that decide what is built: compute_nodes, and
\* whether node_label_func and node_hover_func are given (both or neither;
\* they are not read when compute_nodes is false).
Requests ==
  {[compute_nodes |-> FALSE, callbacks |-> FALSE],
   [compute_nodes |-> TRUE, callbacks |-> FALSE],
   [compute_nodes |-> TRUE, callbacks |-> TRUE]}

\* The part convert_scipy_dendrogram and create_dendrogram share: build the
\* Dendrogram from the geometry g the builder now holds.
Generate(b, g, req) ==
  \E r \in {generate_dendrogram(node_dict, g, DefaultColorScheme, cluster_data[b], cdata,
                                 req.compute_nodes, req.callbacks, req.callbacks)} :
     /\ geom' = [geom EXCEPT ![b] = g]
     /\ node_dict' = r.dict
     /\ writer' = WriterAfter(b, r.dict)
     /\ cdata' = r.cd
     /\ out' = [out EXCEPT ![b] = [err |-> r.err, dendrogram |-> r.dendrogram,
                                   compute_nodes |-> req.compute_nodes,
                                   callbacks |-> req.callbacks,
                                   given |-> <<RequiredKeys>>, pass |-> r.pass]]
     /\ shown' = [shown EXCEPT ![b] = <<>>]
     /\ UNCHANGED <<cluster_data, access, thr>>

\* The call raised before it built anything.
Raise(b, err, given) ==
  /\ out' = [out EXCEPT ![b] = [NoOutcome EXCEPT !.err = err, !.given = given]]
  /\ shown' = [shown EXCEPT ![b] = <<>>]
  /\ UNCHANGED <<cdata, cluster_data, geom, node_dict, writer, access, thr>>

\* BaseDendro.convert_scipy_dendrogram(R, compute_nodes, node_label_func, node_hover_func)
ConvertScipyDendrogram(b, R, req) ==
  \E s \in {set_scipy_dendrogram(geom[b], R)} :
     IF s.err # NoError
     THEN Raise(b, s.err, <<DOMAIN R>>)
     ELSE Generate(b, s.geom, req)

\* sort_criteria / sort_descending translated to SciPy's count_sort / distance_sort.
SortModeOf(sort_criteria, sort_descending) ==
  IF sort_criteria = "distance"
  THEN (IF sort_descending THEN "distance_descending" ELSE "distance_ascending")
  ELSE (IF sort_descending THEN "count_descending" ELSE "count_ascending")

\* BaseDendro.create_dendrogram(sort_criteria, sort_descending, compute_nodes,
\* node_label_func, node_hover_func); truncate_mode and p are left at values
\* that truncate nothing, link_color_func and leaf_label_func at None.
CreateDendrogram(b, sort_criteria, sort_descending, req) ==
  IF Len(geom[b].icoord) = 0
  THEN IF ~cluster_data[b]
       THEN Raise(b, Error("AttributeError", "cluster_data", 0, {}), <<>>)
       ELSE \E s \in {set_scipy_dendrogram(
                         geom[b],
                         ScipyDendrogramOf(cdata.linkage_matrix,
                                           SortModeOf(sort_criteria, sort_descending), FALSE))} :
              Generate(b, s.geom, req)
  ELSE Generate(b, geom[b], req)

\* A renderer conversion (to_altair, to_plotly, ...) up to its check_nodes call.
CheckNodes(b, show_nodes) ==
  /\ out[b].dendrogram # <<>>
  /\ shown' = [shown EXCEPT ![b] =
                 <<[show_nodes |-> show_nodes,
                    result |-> check_nodes(out[b].dendrogram[1], show_nodes)]>>]
  /\ UNCHANGED <<cdata, cluster_data, geom, node_dict, writer, out, access, thr>>

\* Geometry records a caller of convert_scipy_dendrogram hands in: SciPy's
\* under each sort option, one coloured by a link_color_func, one whose
\* brackets come parents first, and records with up to MaxMissing of the
\* required keys absent.
Restrict(R, keys) == [k \in keys |-> R[k]]
MaxMissing == 2
MissingSets == {K \in SUBSET RequiredKeys : 1 <= Cardinality(K) /\ Cardinality(K) <= MaxMissing}

WellFormedInputs(Z) ==
  {ScipyDendrogramOf(Z, m, FALSE) : m \in SortModes}
  \cup {ScipyDendrogramOf(Z, "none", TRUE)}
  \cup {ReorderedDendrogram(ScipyDendrogramOf(Z, "none", FALSE))}
MalformedInputs(Z) ==
  {Restrict(ScipyDendrogramOf(Z, "none", FALSE), RequiredKeys \ K) : K \in MissingSets}

Convert(b) ==
  \E R \in WellFormedInputs(cdata.linkage_matrix), req \in Requests :
    ConvertScipyDendrogram(b, R, req)

ConvertMalformed(b) ==
  \E R \in MalformedInputs(cdata.linkage_matrix) :
    ConvertScipyDendrogram(b, R, CHOOSE req \in Requests : TRUE)

Create(b) ==
  \E sc \in {"distance", "count"}, sd \in BOOLEAN, req \in Requests :
    CreateDendrogram(b, sc, sd, req)

Render(b) == \E sn \in BOOLEAN : CheckNodes(b, sn)

\* One builder: clustering data set, dendrograms converted and created.
Next == SetClusterInfo(1) \/ Convert(1) \/ Create(1)
Spec == Init /\ [][Next]_vars

\* One builder used without clustering data, as convert_scipy_dendrogram
\* allows: fed well-formed and malformed geometry records, its Dendrograms
\* handed to renderers.
NextConvert == Convert(1) \/ ConvertMalformed(1) \/ Render(1)
SpecConvert == Init /\ [][NextConvert]_vars

\* ClusteringData.get_leaders() called directly (by a callback, by the
\* application): leaders() runs when have_leaders is not set.
GetLeaders ==
  \E r \in {get_leaders(cdata)} :
    /\ access' = [access EXCEPT !.op = "get_leaders", !.value = <<r.L, r.M>>,
                                !.leaders_runs = @ + (IF cdata.have_leaders THEN 0 ELSE 1)]
    /\ cdata' = r.cd
    /\ UNCHANGED <<cluster_data, geom, node_dict, writer, out, shown, thr>>

\* ClusteringData.get_merge_map() called directly: zips and builds the dict.
MaxAccesses == 2
GetMergeMap ==
  /\ access.merge_map_runs < MaxAccesses
  /\ access' = [access EXCEPT !.op = "get_merge_map", !.value = get_merge_map(cdata),
                              !.merge_map_runs = @ + 1]
  /\ UNCHANGED <<cdata, cluster_data, geom, node_dict, writer, out, shown, thr>>

\* One ClusteringData instance, constructed with or without leaders (those
\* scipy's leaders() gave the caller, here listed by decreasing id), and
\* accessed directly.
InitCluster ==
  /\ \E zt \in ClusteringInputs, supplied \in BOOLEAN :
       /\ access = [NoAccess EXCEPT !.supplied = supplied]
       /\ cdata = IF supplied
                  THEN NewClusteringDataWithLeaders(
                         zt[1], zt[2], Reverse(ScipyLeaders(zt[1], zt[2]).L),
                         Reverse(ScipyLeaders(zt[1], zt[2]).M))
                  ELSE NewClusteringData(zt[1], zt[2])
  /\ cluster_data = [b \in Builders |-> FALSE]
  /\ geom = [b \in Builders |-> EmptyGeom]
  /\ node_dict = <<>>
  /\ writer = <<>>
  /\ out = [b \in Builders |-> NoOutcome]
  /\ shown = [b \in Builders |-> <<>>]
  /\ thr = [t \in Builders |-> NoThread]
NextCluster == GetLeaders \/ GetMergeMap
SpecCluster == InitCluster /\ [][NextCluster]_vars

\* Two builder instances of the one class.
NextShared == \E b \in Builders : SetClusterInfo(b) \/ Create(b)
SpecShared == Init /\ [][NextShared]_vars


\* Two threads, thread t calling create_dendrogram(compute_nodes=True) on its
\* own builder t with its own ClusteringData.  What the call does before
\* _nodes touches only the thread's builder (set_cluster_info, the
\* ingestion of the geometry, _links) and is folded into the initial state;
\* _nodes is stepped one statement at a time, the interpreter switching
\* threads between statements.
Threads == Builders
StartedThread(c) == [NoThread EXCEPT !.pc = "check", !.cd = <<c>>]
GeometryOf(c) ==
  set_scipy_dendrogram(EmptyGeom,
                       ScipyDendrogramOf(c.linkage_matrix, SortModeOf("distance", FALSE),
                                         FALSE)).geom
SeedCount(g) == Min3(Len(g.leaf_positions), Len(g.leaves), Len(g.leaves_color_list))
PassSoFar == [dict |-> node_dict, log |-> <<>>, puts |-> 0, err |-> NoError]

InitThreads ==
  /\ \E zt \in [Threads -> ClusteringInputs] :
       /\ thr = [t \in Threads |-> StartedThread(NewClusteringData(zt[t][1], zt[t][2]))]
       /\ geom = [t \in Threads |-> GeometryOf(NewClusteringData(zt[t][1], zt[t][2]))]
       /\ cdata = NewClusteringData(zt[1][1], zt[1][2])
  /\ cluster_data = [b \in Builders |-> TRUE]
  /\ node_dict = <<>>
  /\ writer = <<>>
  /\ out = [b \in Builders |-> NoOutcome]
  /\ shown = [b \in Builders |-> <<>>]
  /\ access = NoAccess

\* line 238: if not self.node_dict
ThreadCheck(t) ==
  /\ thr[t].pc = "check"
  /\ thr' = [thr EXCEPT ![t].pc = IF NodesMemoised(node_dict) THEN "return"
                                  ELSE IF SeedCount(geom[t]) = 0 THEN "maps"
                                  ELSE "leaves",
                        ![t].i = 1]
  /\ UNCHANGED <<cdata, cluster_data, geom, node_dict, writer, out, shown, access>>

\* lines 247-265: one iteration of the leaf loop
ThreadSeedLeaf(t) ==
  /\ thr[t].pc = "leaves"
  /\ \E a \in {SeedLeaf(PassSoFar, thr[t].i, geom[t].leaf_positions[thr[t].i],
                        geom[t].leaves[thr[t].i], geom[t].leaves_color_list[thr[t].i],
                        DefaultColorScheme, thr[t].cd[1], FALSE, FALSE)} :
       /\ node_dict' = a.dict
       /\ writer' = IF Len(a.dict) > Len(node_dict) THEN Append(writer, t) ELSE writer
       /\ thr' = [thr EXCEPT ![t].pc = IF a.err # NoError THEN "raised"
                                       ELSE IF thr[t].i = SeedCount(geom[t]) THEN "maps"
                                       ELSE "leaves",
                             ![t].err = a.err,
                             ![t].i = @ + 1]
  /\ UNCHANGED <<cdata, cluster_data, geom, out, shown, access>>

\* lines 270-271: merge_map = ...get_merge_map(); leaders, flat_cluster_ids = ...get_leaders()
ThreadMaps(t) ==
  /\ thr[t].pc = "maps"
  /\ \E lead \in {get_leaders(thr[t].cd[1])} :
       thr' = [thr EXCEPT ![t].pc = IF LinkCount(geom[t]) = 0 THEN "return" ELSE "links",
                          ![t].merge_map = get_merge_map(thr[t].cd[1]),
                          ![t].cd = <<lead.cd>>,
                          ![t].L = lead.L,
                          ![t].M = lead.M,
                          ![t].i = 1]
  /\ UNCHANGED <<cdata, cluster_data, geom, node_dict, writer, out, shown, access>>

\* lines 273-306: one iteration of the link loop
ThreadLink(t) ==
  /\ thr[t].pc = "links"
  /\ \E a \in {ProcessLink(PassSoFar, thr[t].i, geom[t].icoord[thr[t].i],
                           geom[t].dcoord[thr[t].i], geom[t].link_colors[thr[t].i],
                           DefaultColorScheme, thr[t].cd[1], thr[t].merge_map,
                           thr[t].L, thr[t].M, FALSE, FALSE)} :
       /\ node_dict' = a.dict
       /\ writer' = IF Len(a.dict) > Len(node_dict) THEN Append(writer, t) ELSE writer
       /\ thr' = [thr EXCEPT ![t].pc = IF a.err # NoError THEN "raised"
                                       ELSE IF thr[t].i = LinkCount(geom[t]) THEN "return"
                                       ELSE "links",
                             ![t].err = a.err,
                             ![t].i = @ + 1]
  /\ UNCHANGED <<cdata, cluster_data, geom, out, shown, access>>

\* line 308: return list(self.node_dict.values())
ThreadReturn(t) ==
  /\ thr[t].pc = "return"
  /\ thr' = [thr EXCEPT ![t].pc = "done", ![t].result = DictValues(node_dict)]
  /\ UNCHANGED <<cdata, cluster_data, geom, node_dict, writer, out, shown, access>>

NextThreads ==
  \E t \in Threads :
    ThreadCheck(t) \/ ThreadSeedLeaf(t) \/ ThreadMaps(t) \/ ThreadLink(t) \/ ThreadReturn(t)
SpecThreads == InitThreads /\ [][NextThreads]_vars

\* ------------------------------------------------------------ vocabulary
\* The last call on builder b asked for nodes and returned a Dendrogram.
ReturnedNodes(b) ==
  out[b].err = NoError /\ out[b].compute_nodes /\ out[b].dendrogram # <<>>
NodesOf(b) == out[b].dendrogram[1].nodes

\* The last call on builder b ran the _nodes pass, on an empty registry and
\* with clustering data at hand.
RanPass(b) ==
  out[b].compute_nodes /\ out[b].pass.ran /\ out[b].err.what # "cluster_data"

\* ... and the pass went through: a successful node build.
BuiltNodes(b) == RanPass(b) /\ ReturnedNodes(b)

LeafKeys(g) ==
  {<<g.leaf_positions[k], 0>> :
     k \in 1..Min3(Len(g.leaf_positions), Len(g.leaves), Len(g.leaves_color_list))}
Feet(g, i) == {LeftCoords(g.icoord[i], g.dcoord[i]), RightCoords(g.icoord[i], g.dcoord[i])}
TopsBefore(g, i) == {MergedCoords(g.icoord[j], g.dcoord[j]) : j \in 1..(i - 1)}

\* Geometry of an N-leaf tree emitted children before parents: N-1 brackets,
\* each foot resting on a leaf slot (x = 5, 15, ... at height 0) or on the top
\* of a bracket emitted earlier.
LeafSlots(n) == {<<LeafX(k), 0>> : k \in 0..(n - 1)}
ChildrenBeforeParents(g, n) ==
  /\ Len(g.icoord) = n - 1 /\ Len(g.dcoord) = n - 1 /\ Len(g.link_colors) = n - 1
  /\ Len(g.leaves) = n /\ Len(g.leaves_color_list) = n
  /\ \A i \in 1..(n - 1) : Feet(g, i) \subseteq LeafSlots(n) \cup TopsBefore(g, i)

\* a is a strict descendant of b in the linkage Z.
StrictlyBelow(Z, a, b) ==
  a # b /\ LeavesUnder(Z, a) \subseteq LeavesUnder(Z, b)
  /\ LeavesUnder(Z, a) # LeavesUnder(Z, b)
LeaderIds(c) == {id \in AllIds(c.linkage_matrix) :
                   IsLeader(c.linkage_matrix, c.cluster_assignments, id)}
LabelOfLeader(c, id) ==
  c.cluster_assignments[(CHOOSE l \in LeavesUnder(c.linkage_matrix, id) : TRUE) + 1]

\* ------------------------------------------------------------------- C1
\* C1: a node build that runs on an empty registry over the untruncated,
\* children-before-parents geometry of the N-leaf linkage returns exactly
\* 2N-1 nodes: N of type leaf carrying the ids 0..N-1, and N-1 merge nodes
\* with pairwise distinct ids that are exactly N..2N-2.
C1_AllNodesBuilt ==
  LET N == NumLeaves(cdata.linkage_matrix)
  IN (RanPass(1) /\ ChildrenBeforeParents(geom[1], N)) =>
       /\ ReturnedNodes(1)
       /\ Len(NodesOf(1)) = 2 * N - 1
       /\ LET ns == NodesOf(1)
              leafAt == {i \in 1..Len(ns) : ns[i].type = "leaf"}
              mergeAt == {i \in 1..Len(ns) : ns[i].type # "leaf"}
          IN /\ Cardinality(leafAt) = N
             /\ {ns[i].id : i \in leafAt} = 0..(N - 1)
             /\ Cardinality(mergeAt) = N - 1
             /\ {ns[i].id : i \in mergeAt} = N..(2 * N - 2)

\* ------------------------------------------------------------------- C2
\* C2: get_merge_map maps the k-th linkage row (0-indexed) to id N+k, one
\* entry per row; and every merge node a _nodes pass produced has the id the
\* merge map holds for <<id of the node registered at the bracket's left
\* foot, id of the node registered at its right foot>>.
MergesProduced(b) ==
  LET seeded == Min3(Len(geom[b].leaf_positions), Len(geom[b].leaves),
                     Len(geom[b].leaves_color_list))
  IN IF out[b].pass.puts > seeded THEN out[b].pass.puts - seeded ELSE 0

C2_MergeMapIds ==
  LET Z == cdata.linkage_matrix
      mm == get_merge_map(cdata)
  IN /\ Len(mm) = Len(Z)
     /\ \A k \in 0..(Len(Z) - 1) :
          /\ DictHas(mm, <<Z[k + 1][1], Z[k + 1][2]>>)
          /\ DictGet(mm, <<Z[k + 1][1], Z[k + 1][2]>>) = NumLeaves(Z) + k
     /\ RanPass(1) =>
          \A i \in 1..MergesProduced(1) :
            LET x == geom[1].icoord[i]
                y == geom[1].dcoord[i]
            IN /\ DictHas(node_dict, MergedCoords(x, y))
               /\ DictHas(node_dict, LeftCoords(x, y))
               /\ DictHas(node_dict, RightCoords(x, y))
               /\ LET pair == <<DictGet(node_dict, LeftCoords(x, y)).id,
                                DictGet(node_dict, RightCoords(x, y)).id>>
                  IN /\ DictHas(mm, pair)
                     /\ DictGet(node_dict, MergedCoords(x, y)).id = DictGet(mm, pair)

\* A pass went through on a linkage of at least 3 leaves: two merge nodes or
\* more were produced, one of them over another.
C2_Witness ==
  /\ BuiltNodes(1)
  /\ NumLeaves(cdata.linkage_matrix) >= 3
  /\ MergesProduced(1) = Len(cdata.linkage_matrix)

\* ------------------------------------------------------------------- C3
\* C3: after a successful node build every returned node, leaf or merge, has
\* type cluster exactly when its id is a leader id, then carries that
\* leader's flat-cluster label, and carries no cluster label otherwise.
C3_ClusterIffLeader ==
  BuiltNodes(1) =>
    \A i \in 1..Len(NodesOf(1)) :
      LET p == NodesOf(1)[i]
      IN /\ (p.type = "cluster") <=> (p.id \in LeaderIds(cdata))
         /\ p.id \in LeaderIds(cdata) => p.cluster_id = <<LabelOfLeader(cdata, p.id)>>
         /\ p.id \notin LeaderIds(cdata) => p.cluster_id = <<>>

\* ------------------------------------------------------------------- C4
\* C4: the number of nodes of type cluster a successful node build returns
\* equals the number of distinct flat-cluster labels of the assignment, also
\* when a flat cluster is a single leaf.
C4_ClusterCount ==
  BuiltNodes(1) =>
    Cardinality({i \in 1..Len(NodesOf(1)) : NodesOf(1)[i].type = "cluster"})
      = Cardinality(Range(cdata.cluster_assignments))

\* ------------------------------------------------------------------- C5
\* C5: after a successful node build every node strictly below a leader is a
\* leaf or a subcluster, and every merge strictly above a leader is a
\* supercluster, also when the leaders it combines are single leaves; in the
\* documented 4-leaf example nodes 4 and 5 are cluster, node 6 is
\* supercluster and no node is a subcluster.
TypeOfId(ns, id) == ns[CHOOSE i \in 1..Len(ns) : ns[i].id = id].type

C5_SubAndSuperclusters ==
  BuiltNodes(1) =>
    LET Z == cdata.linkage_matrix
        ns == NodesOf(1)
    IN /\ \A i \in 1..Len(ns) :
            /\ (\E l \in LeaderIds(cdata) : StrictlyBelow(Z, ns[i].id, l))
                 => ns[i].type \in {"leaf", "subcluster"}
            /\ (\E l \in LeaderIds(cdata) : StrictlyBelow(Z, l, ns[i].id))
                 => ns[i].type = "supercluster"
       /\ (Z = ExampleLinkage /\ cdata.cluster_assignments = ExampleCut) =>
            /\ TypeOfId(ns, 4) = "cluster" /\ TypeOfId(ns, 5) = "cluster"
            /\ TypeOfId(ns, 6) = "supercluster"
            /\ \A i \in 1..Len(ns) : ns[i].type # "subcluster"

\* ------------------------------------------------------------------- C6
\* C6: a node build on a builder whose previous call returned nodes, with
\* geometry and cluster info unchanged, returns a node collection equal to
\* the previous one by id, coordinate and type, and recomputes nothing: it
\* does not run the pass, registers no node and invokes no callback.
ByIdCoordType(ns) ==
  [i \in 1..Len(ns) |-> [id |-> ns[i].id, x |-> ns[i].x, y |-> ns[i].y, type |-> ns[i].type]]

SecondBuild ==
  /\ ReturnedNodes(1)
  /\ geom' = geom /\ cluster_data' = cluster_data
  /\ out'[1].compute_nodes

C6_SecondBuildMemoised ==
  [][SecondBuild =>
       /\ out'[1].err = NoError /\ out'[1].dendrogram # <<>>
       /\ ByIdCoordType(out'[1].dendrogram[1].nodes) = ByIdCoordType(NodesOf(1))
       /\ ~out'[1].pass.ran /\ out'[1].pass.puts = 0 /\ out'[1].pass.log = <<>>
       /\ node_dict' = node_dict]_vars

\* A build that was given callbacks returned all 2N-1 nodes of an earlier
\* pass without running one.
C6_Witness ==
  /\ ReturnedNodes(1) /\ out[1].callbacks /\ ~out[1].pass.ran
  /\ Len(NodesOf(1)) = 2 * NumLeaves(cdata.linkage_matrix) - 1

\* ------------------------------------------------------------------- C7
\* C7: the memoization is scoped to one builder instance: the nodes a build
\* on builder b returns were all registered by builds on b, never by a build
\* on another instance.
C7_MemoPerInstance ==
  \A b \in Builders :
    ReturnedNodes(b) =>
      /\ NodesOf(b) = DictValues(node_dict)
      /\ \A i \in 1..Len(writer) : writer[i] = b

\* ------------------------------------------------------------------- C8
\* C8: when the geometry holds a merge with a foot that is not registered at
\* the time the pass processes it (neither a seeded leaf nor the top of a
\* bracket processed before), the build fails with a lookup error at that
\* merge and the call returns no node collection.
Unregistered(g, i) == Feet(g, i) \ (LeafKeys(g) \cup TopsBefore(g, i))
OrderViolations(g) == {i \in 1..LinkCount(g) : Unregistered(g, i) # {}}
FirstViolation(g) == CHOOSE i \in OrderViolations(g) : \A j \in OrderViolations(g) : i <= j

\* The pass got as far as link i.
Processed(b, i) ==
  RanPass(b) /\ ~(out[b].err.what \in {"leaf color", "pair", "node color"} /\ out[b].err.at < i)

C8_OrderViolationFails ==
  (OrderViolations(geom[1]) # {} /\ Processed(1, FirstViolation(geom[1]))) =>
    /\ out[1].err.type = "KeyError" /\ out[1].err.what = "coord"
    /\ out[1].err.at = FirstViolation(geom[1])
    /\ out[1].err.names \subseteq Unregistered(geom[1], FirstViolation(geom[1]))
    /\ out[1].err.names # {}
    /\ out[1].dendrogram = <<>>

\* A pass over parents-first geometry of positive heights failed on a
\* bracket whose foot is the top of a bracket emitted later.
C8_Witness ==
  /\ RanPass(1) /\ out[1].err.what = "coord"
  /\ \E c \in out[1].err.names : c[2] > 0
  /\ node_dict # <<>>

\* ------------------------------------------------------------------- C9
\* C9: ingesting a record that lacks some of the six required keys fails
\* with an error naming exactly the missing keys, returns nothing, and
\* leaves the geometry the builder held before untouched.
LackingKeys(o) == o.given # <<>> /\ ~(RequiredKeys \subseteq o.given[1])

C9_MissingKeysNamed ==
  [][LackingKeys(out'[1]) =>
       /\ out'[1].err.type = "AttributeError" /\ out'[1].err.what = "missing keys"
       /\ out'[1].err.names = RequiredKeys \ out'[1].given[1]
       /\ out'[1].dendrogram = <<>>
       /\ geom' = geom]_vars

\* A record lacking two keys was refused by a builder that holds geometry
\* from an earlier ingestion.
C9_Witness ==
  /\ LackingKeys(out[1])
  /\ out[1].err.what = "missing keys"
  /\ Cardinality(out[1].err.names) = 2
  /\ geom[1] # EmptyGeom

\* ------------------------------------------------------------------ C10
\* C10: a Dendrogram generated with compute_nodes = false carries
\* computed_nodes = false, and check_nodes on a Dendrogram fails exactly when
\* nodes are requested (show_nodes) and were not computed.
C10_NodesNotComputed ==
  /\ (out[1].dendrogram # <<>> /\ ~out[1].compute_nodes) =>
       ~out[1].dendrogram[1].computed_nodes
  /\ shown[1] # <<>> =>
       shown[1][1].result =
         (IF shown[1][1].show_nodes /\ ~out[1].compute_nodes THEN "RuntimeError" ELSE "ok")

\* ------------------------------------------------------------------ C11
\* C11: over any sequence of direct accesses to one ClusteringData, the
\* leaders and the merge map are each computed at most once, and leaders
\* given to the constructor are returned without any computation.
C11_ComputedOnce ==
  /\ access.leaders_runs <= 1
  /\ access.merge_map_runs <= 1
  /\ access.supplied => access.leaders_runs = 0

\* ------------------------------------------------------------------ C12
\* C12: a returned Dendrogram holds exactly one link per geometry
\* quadruple, in geometry order, with that quadruple's x and y and the
\* colour-table value of its colour key; when a link colour key is not in
\* the colour table the call fails with a KeyError and returns nothing.
Generated(b) == out[b].given = <<RequiredKeys>>
UnknownLinkColors(g) == {i \in 1..Len(g.link_colors) : g.link_colors[i] \notin DefaultColorScheme}

C12_OneLinkPerQuadruple ==
  Generated(1) =>
    LET g == geom[1]
    IN /\ out[1].dendrogram # <<>> =>
            LET links == out[1].dendrogram[1].links
            IN /\ Len(links) = Len(g.icoord)
               /\ \A i \in 1..Len(links) :
                    /\ links[i].x = g.icoord[i] /\ links[i].y = g.dcoord[i]
                    /\ g.link_colors[i] \in DefaultColorScheme
                    /\ links[i].fillcolor = ColorValue(g.link_colors[i])
       /\ UnknownLinkColors(g) # {} =>
            /\ out[1].dendrogram = <<>>
            /\ out[1].err.type = "KeyError" /\ out[1].err.what = "link color"
            /\ out[1].err.at \in UnknownLinkColors(g)

\* A Dendrogram with two links or more was returned.
C12_Witness ==
  /\ Generated(1) /\ out[1].dendrogram # <<>>
  /\ Len(out[1].dendrogram[1].links) >= 2
  /\ out[1].dendrogram[1].links[1] # out[1].dendrogram[1].links[2]

\* ------------------------------------------------------------------ C13
\* C13: the merge of a linkage row (a, b) gets the row's merged id whether
\* the geometry has a at the left foot and b at the right or the other way
\* round: every merge node produced has the id of the row of its two feet
\* taken as an unordered pair, and the pair lookup never fails for a pair
\* that is a linkage row in either order.
RowsOfPair(Z, a, b) ==
  {k \in 0..(Len(Z) - 1) : {Z[k + 1][1], Z[k + 1][2]} = {a, b}}

C13_UnorderedPairLookup ==
  RanPass(1) =>
    LET Z == cdata.linkage_matrix
    IN /\ \A i \in 1..MergesProduced(1) :
            LET x == geom[1].icoord[i]
                y == geom[1].dcoord[i]
            IN (DictHas(node_dict, LeftCoords(x, y)) /\ DictHas(node_dict, RightCoords(x, y))
                /\ DictHas(node_dict, MergedCoords(x, y))) =>
                 DictGet(node_dict, MergedCoords(x, y)).id - NumLeaves(Z)
                   \in RowsOfPair(Z, DictGet(node_dict, LeftCoords(x, y)).id,
                                     DictGet(node_dict, RightCoords(x, y)).id)
       /\ out[1].err.what = "pair" =>
            \A p \in out[1].err.names : RowsOfPair(Z, p[1], p[2]) = {}

\* ------------------------------------------------------------------ C14
\* C14: after a pass aborted on a failed lookup (foot coordinate or child
\* pair) the registry holds no node of that pass, and no build on any
\* builder returns a partial node set: a returned collection has a merge
\* node for every bracket of the builder's geometry.
AbortedOnLookup(b) == RanPass(b) /\ out[b].err.what \in {"coord", "pair"}
MergeNodeCount(ns) == Cardinality({i \in 1..Len(ns) : ns[i].type # "leaf"})

C14_NoPartialRegistry ==
  \A b \in Builders :
    /\ AbortedOnLookup(b) => node_dict = <<>>
    /\ ReturnedNodes(b) => MergeNodeCount(NodesOf(b)) = LinkCount(geom[b])

\* ------------------------------------------------------------------ C15
\* C15: the nodes are built fresh on every generation call: the collection a
\* call returns is the one a pass over the geometry the builder now holds
\* produces from an empty registry, so after new geometry was ingested the
\* nodes are those of the new geometry.
FreshNodes(b) ==
  nodes_of(<<>>, geom[b], DefaultColorScheme, cluster_data[b], cdata, FALSE, FALSE)

C15_NodesBuiltFresh ==
  ReturnedNodes(1) =>
    \E f \in {FreshNodes(1)} :
      /\ f.err = NoError
      /\ ByIdCoordType(NodesOf(1)) = ByIdCoordType(f.nodes)

\* ------------------------------------------------------------------ C16
\* C16: in a pass with both callbacks supplied, each callback is called once
\* per node built, label then hover, the leaves first in display order and
\* then the merges in the order the geometry lists their brackets; the node
\* handed over carries its final id, type and cluster id, and what the
\* callbacks return is stored as the node's label and hovertext.
SeededLeaves(b) ==
  Min2(out[b].pass.puts,
       Min3(Len(geom[b].leaf_positions), Len(geom[b].leaves), Len(geom[b].leaves_color_list)))
CalledFor(b, k) == out[b].pass.log[2 * k - 1][2]

C16_CallbacksOncePerNode ==
  (RanPass(1) /\ out[1].callbacks) =>
    LET log == out[1].pass.log
        puts == out[1].pass.puts
        g == geom[1]
        nl == SeededLeaves(1)
    IN /\ Len(log) = 2 * puts
       /\ \A k \in 1..puts : log[2 * k - 1] = <<"label", CalledFor(1, k)>>
                             /\ log[2 * k] = <<"hover", CalledFor(1, k)>>
       /\ \A k \in 1..nl : CalledFor(1, k) = g.leaves[k]
       /\ \A j \in 1..(puts - nl) :
            /\ DictHas(node_dict, MergedCoords(g.icoord[j], g.dcoord[j]))
            /\ DictGet(node_dict, MergedCoords(g.icoord[j], g.dcoord[j])).id = CalledFor(1, nl + j)
       /\ \A i \in 1..Len(node_dict) :
            LET n == node_dict[i].val
            IN /\ n.label = <<"label", n.id, n.type, n.cluster_id>>
               /\ n.hovertext = <<"hover", n.id, n.type, n.cluster_id>>

\* A finished build of a tree of three or more leaves with both callbacks,
\* clusters and other merges among the nodes.
C16_Witness ==
  /\ BuiltNodes(1) /\ out[1].callbacks
  /\ Len(geom[1].leaves) >= 3
  /\ Len(out[1].pass.log) = 2 * (2 * Len(geom[1].leaves) - 1)
  /\ \E i \in 1..Len(NodesOf(1)) : NodesOf(1)[i].type = "cluster"
  /\ \E i \in 1..Len(NodesOf(1)) : NodesOf(1)[i].type \in {"subcluster", "supercluster"}

\* ------------------------------------------------------------------ C17
\* C17: after a successful ingestion leaf_positions is exactly the leaves'
\* x-coordinates: ascending, one entry per leaf id (the k-th leaf sits at
\* slot k of the axis), and none of them the x of a bracket's midpoint, also
\* when the geometry has merges at height 0.
Ingested(b) == geom[b] # EmptyGeom
MergeXs(g) == {MergedCoords(g.icoord[i], g.dcoord[i])[1] : i \in 1..Len(g.icoord)}

C17_LeafPositionsAreLeaves ==
  Ingested(1) =>
    LET g == geom[1]
    IN /\ Len(g.leaf_positions) = Len(g.leaves)
       /\ \A k \in 1..Len(g.leaf_positions) : g.leaf_positions[k] = LeafX(k - 1)
       /\ \A k \in 1..Len(g.leaf_positions) : g.leaf_positions[k] \notin MergeXs(g)

\* ------------------------------------------------------------------ C18
\* C18: within one pass no coordinate key is registered twice: every
\* registration, of a leaf at (x, 0) or of a merge at its midpoint, adds a
\* key the registry did not hold, so the registry ends the pass with as
\* many nodes as were registered and none was overwritten.
Registrations(b) == out[b].pass.puts

C18_NoKeyRegisteredTwice ==
  RanPass(1) => Len(node_dict) = Registrations(1)

\* ------------------------------------------------------------------ C19
\* C19: two node builds running at the same time in two threads, each on
\* its own builder with its own ClusteringData and no lock, return under
\* every interleaving what each would return when run alone: the nodes (or
\* the error) of a pass over the thread's geometry from an empty registry.
Finished(t) == thr[t].pc \in {"done", "raised"}
Alone(t) ==
  nodes_of(<<>>, geom[t], DefaultColorScheme, TRUE, thr[t].cd[1], FALSE, FALSE)

C19_ConcurrentBuildsIndependent ==
  \A t \in Threads :
    Finished(t) =>
      \E a \in {Alone(t)} : thr[t].err = a.err /\ thr[t].result = a.nodes

====
